---- MODULE Spec2Model ----
(***************************************************************************)
(* Model of tiktorch/trainy.py: the Trainer controller (ignition, push,     *)
(* push_hparams, pause/resume, state pulls, shutdown), the worker loop      *)
(* Trainer._train_process and the state server threads                      *)
(* Trainer._state_server.                                                   *)
(*                                                                          *)
(* Processes: the controller (one caller, one operation at a time), the     *)
(* worker loop, the model state server thread and one optimizer state       *)
(* server thread per optimizer built (the first at start, one more per      *)
(* hot-reload).  Every step of a process that reads or writes something     *)
(* another process can see is one action; code that only touches the        *)
(* worker's own locals (the cache top-up) is folded into the step before    *)
(* it.                                                                      *)
(***************************************************************************)
EXTENDS Integers, Sequences, FiniteSets, TLC

\* ------------------------------------------------------------------ bounds
MaxPush == 3          \* samples pushed over the run
MaxHparams == 1       \* push_hparams calls over the run
MaxPulls == 2         \* state pulls (model or optimizer) over the run
PullPush == 1         \* samples pushed in the runs that pull state
LiveHparams == 2      \* push_hparams calls in the runs checked for progress
AbortPush == 1        \* samples pushed in the runs that shut down
MaxBatch == 2         \* batch_size ranges over 1..MaxBatch
MaxCache == 2         \* cache_size ranges over 0..MaxCache
MaxIter == 2          \* iter_count is followed up to MaxIter, then held
MaxSpawn == 2         \* worker processes followed; the code keeps it at one
ParamMod == 2         \* a parameter tensor's value is followed modulo ParamMod

\* --------------------------------------------------------------- constants
ShutdownTrials == 6   \* range(6) in shut_down_training_process
NumKillAttempts == 5  \* num_kill_attempts=5 in _kill_state_server

None == [none |-> TRUE]

BatchSizes == 1..MaxBatch
CacheSizes == 0..MaxCache

\* A Hyperparameters record (argparse.Namespace); rev tells the records apart:
\* 0 is the one the constructor got, k the one of the k-th push_hparams call.
HparamsOf(rev) == [batch_size : BatchSizes, cache_size : CacheSizes, rev : {rev}]

\* The content of a sample is read by _cache_keeping only; without cache
\* keeping it is opaque to this code and is followed as one value.
SampleData(keeping) == IF keeping THEN {0, 1} ELSE {0}
SampleLabels(keeping) == IF keeping THEN {0, 1} ELSE {0}

\* A state_dict: two parameter tensors, a and b, written one after the other
\* by an update.  gen is the optimizer the snapshot is of (0 for the model).
FreshState(g) == [gen |-> g, a |-> 0, b |-> 0]
Bump(v) == (v + 1) % ParamMod
Torn(s) == s.a # s.b

Last(s) == s[Len(s)]
Min(S) == CHOOSE x \in S : \A y \in S : x <= y

VARIABLES
  \* the python build
  optimized,              \* python -O: assert statements are not executed
  use_cache_keeping,      \* Trainer.USE_CACHE_KEEPING
  \* controller (Trainer object)
  ignited,                \* self._ignited
  self_hparams,           \* self.hparams
  handler_model,          \* self.model's state (the handler's model)
  ctl,                    \* the operation the controller is in, and its locals
  npushed, nhparams, npulls,
  \* mp.Queue / mp.Event shared with the worker
  data_queue, hparams_queue, state_queue, optimizer_queue,
  abort, pause, change_hparams, state_request, optimizer_state_request,
  \* worker loop (_train_process locals)
  pc, hparams, data_cache, cache_maxlen, batch, iter_count,
  model, optims, state_lock, killing,
  \* state server threads
  server_thread,          \* [pc, stop]: the model's state server
  optim_threads,          \* one [pc, stop] per optimizer built so far
  \* history
  last_evict,             \* what the last eviction from the cache removed
  recency,                \* cached ids, least recently appended or borrowed first
  last_pull,              \* how the last state pull ended
  nspawned,               \* worker processes started by ignition() so far
  last_shutdown,          \* how the last shut_down_training_process call ended
  first_fetch,            \* data_queue's length at the worker's first dequeue
                          \* (NotFetched before it; None in runs that do not follow it)
  last_kill,              \* the sleep cycles and the report of the current or last
                          \* _kill_state_server call (None in runs that do not follow it)
  taken                   \* for each queued state dict, and for the one the current pull
                          \* got, how many requests had been raised when it was copied
                          \* (None in runs that do not follow it)

ctlvars == <<ignited, self_hparams, handler_model, ctl, npushed, nhparams, npulls>>
chanvars == <<data_queue, hparams_queue, state_queue, optimizer_queue>>
flagvars == <<abort, pause, change_hparams, state_request, optimizer_state_request>>
workvars == <<pc, hparams, data_cache, cache_maxlen, batch, iter_count,
              model, optims, state_lock, killing>>
thrvars == <<server_thread, optim_threads>>
pasthist == <<last_evict, recency, last_pull, nspawned, last_shutdown, first_fetch,
              last_kill>>
histvars == <<pasthist, taken>>
buildvars == <<optimized, use_cache_keeping>>
vars == <<buildvars, ctlvars, chanvars, flagvars, workvars, thrvars, histvars>>

NotFetched == [len |-> 0]
Idle == [op |-> "idle", state |-> None, trial |-> 0, timed_out |-> FALSE]
NoKill == [targets |-> <<>>, then |-> "none"]
KillBegun == [cycles |-> 0, warned |-> FALSE]
NoneTaken == [state_queue |-> <<>>, optimizer_queue |-> <<>>, got |-> 0]
KillPcs == {"kill", "kill_wait", "kill_report"}
NewThread == [pc |-> "assert", stop |-> FALSE]

\* Trainer.__init__: nothing is spawned, the queues and events do not exist.
InitTrainer ==
  /\ optimized \in BOOLEAN
  /\ ignited = FALSE
  /\ handler_model = FreshState(0)
  /\ ctl = Idle
  /\ npushed = 0 /\ nhparams = 0 /\ npulls = 0
  /\ data_queue = <<>> /\ hparams_queue = <<>>
  /\ state_queue = <<>> /\ optimizer_queue = <<>>
  /\ abort = FALSE /\ pause = FALSE /\ change_hparams = FALSE
  /\ state_request = FALSE /\ optimizer_state_request = FALSE
  /\ pc = "unborn"
  /\ hparams = None
  /\ data_cache = <<>> /\ cache_maxlen = 0
  /\ batch = <<>>
  /\ iter_count = 0
  /\ model = FreshState(0)
  /\ optims = <<>>
  /\ state_lock = "free"
  /\ killing = NoKill
  /\ server_thread = [pc |-> "unborn", stop |-> FALSE]
  /\ optim_threads = <<>>
  /\ last_evict = None
  /\ recency = <<>>
  /\ last_pull = None
  /\ nspawned = 0
  /\ last_shutdown = None

\* Any build, any Hyperparameters within the bounds given to the constructor.
Init ==
  /\ use_cache_keeping \in BOOLEAN
  /\ self_hparams \in HparamsOf(0)
  /\ first_fetch = None
  /\ last_kill = None
  /\ taken = None
  /\ InitTrainer

\* The same, for runs that follow when each served state dict was copied.
InitFresh ==
  /\ use_cache_keeping \in BOOLEAN
  /\ self_hparams \in HparamsOf(0)
  /\ first_fetch = None
  /\ last_kill = None
  /\ taken = NoneTaken
  /\ InitTrainer

\* The same, for runs that follow the calls of _kill_state_server.
InitKill ==
  /\ use_cache_keeping \in BOOLEAN
  /\ self_hparams \in HparamsOf(0)
  /\ first_fetch = None
  /\ last_kill = KillBegun
  /\ taken = None
  /\ InitTrainer

\* The constructor given batch_size = 2 and cache_size = 10, with
\* USE_CACHE_KEEPING = False as the class sets it.
ScenarioHparams == [batch_size |-> 2, cache_size |-> 10, rev |-> 0]

InitScenario ==
  /\ use_cache_keeping = FALSE
  /\ self_hparams = ScenarioHparams
  /\ first_fetch = NotFetched
  /\ last_kill = None
  /\ taken = None
  /\ InitTrainer


\* ------------------------------------------------------------ controller
ThreadAlive(t) == t.pc \notin {"unborn", "dead"}

\* mp.Process.is_alive(): the child exits once the target has returned or
\* raised and every non-daemon thread it started has ended.
ProcessAlive ==
  \/ pc \notin {"unborn", "terminated", "crashed"}
  \/ ThreadAlive(server_thread)
  \/ \E g \in 1..Len(optim_threads) : ThreadAlive(optim_threads[g])

\* ignition(): fresh queues and events, the current self.hparams put in the
\* hparams queue, the worker process started on a copy of the model's state.
\* The process begins by starting the model's state server thread.
Ignition ==
  /\ ignited' = TRUE
  /\ hparams_queue' = <<self_hparams>>
  /\ pc' = "start"
  /\ model' = handler_model
  /\ server_thread' = NewThread
  /\ nspawned' = nspawned + 1

\* Faulty variant: ignition() is run whether or not the controller is ignited.
ensure_ignited_unguarded == Ignition

\* if not self._ignited: self.ignition()
ensure_ignited ==
  IF ~ignited THEN Ignition
  ELSE UNCHANGED <<ignited, hparams_queue, pc, model, server_thread, nspawned>>

\* ensure_ignited() called on its own, ignited or not.
EnsureIgnited ==
  /\ ctl.op = "idle"
  /\ nspawned < MaxSpawn
  /\ ensure_ignited
  /\ UNCHANGED <<buildvars, self_hparams, handler_model, ctl, npushed, nhparams, npulls,
                 data_queue, state_queue, optimizer_queue, flagvars,
                 hparams, data_cache, cache_maxlen, batch, iter_count, optims,
                 state_lock, killing, optim_threads,
                 last_evict, recency, last_pull, last_shutdown, first_fetch, last_kill, taken>>

\* push(data, labels) with one sample.
Push(limit) ==
  /\ ctl.op = "idle"
  /\ npushed < limit
  /\ nspawned < MaxSpawn
  /\ ensure_ignited
  /\ \E d \in SampleData(use_cache_keeping), l \in SampleLabels(use_cache_keeping) :
       data_queue' = Append(data_queue, [id |-> npushed + 1, data |-> d, labels |-> l])
  /\ npushed' = npushed + 1
  /\ UNCHANGED <<buildvars, self_hparams, handler_model, ctl, nhparams, npulls,
                 state_queue, optimizer_queue, flagvars,
                 hparams, data_cache, cache_maxlen, batch, iter_count, optims,
                 state_lock, killing, optim_threads,
                 last_evict, recency, last_pull, last_shutdown, first_fetch, last_kill, taken>>

\* push_hparams, up to and including _drain_hparams_queue().
PushHparams(limit) ==
  /\ ctl.op = "idle"
  /\ nhparams < limit
  /\ nhparams' = nhparams + 1
  /\ \E h \in HparamsOf(nhparams + 1) : self_hparams' = h
  /\ IF ~ignited
       THEN UNCHANGED <<ctl, hparams_queue>>
       ELSE /\ hparams_queue' = <<>>
            /\ ctl' = [ctl EXCEPT !.op = "hp_put"]
  /\ UNCHANGED <<buildvars, ignited, handler_model, npushed, npulls,
                 data_queue, state_queue, optimizer_queue, flagvars,
                 workvars, thrvars, histvars>>

\* Faulty variant: the queue is drained after the put instead of before it.
PushHparamsPutThenDrain ==
  /\ ctl.op = "hp_put"
  /\ hparams_queue' = <<>>
  /\ ctl' = [ctl EXCEPT !.op = "hp_set"]
  /\ UNCHANGED <<buildvars, ignited, self_hparams, handler_model, npushed, nhparams, npulls,
                 data_queue, state_queue, optimizer_queue, flagvars,
                 workvars, thrvars, histvars>>

\* self._hparams_queue.put(hparams); time.sleep(1)
PushHparamsPut ==
  /\ ctl.op = "hp_put"
  /\ hparams_queue' = Append(hparams_queue, self_hparams)
  /\ ctl' = [ctl EXCEPT !.op = "hp_set"]
  /\ UNCHANGED <<buildvars, ignited, self_hparams, handler_model, npushed, nhparams, npulls,
                 data_queue, state_queue, optimizer_queue, flagvars,
                 workvars, thrvars, histvars>>

\* self._change_hparams_event.set()
PushHparamsSet ==
  /\ ctl.op = "hp_set"
  /\ change_hparams' = TRUE
  /\ ctl' = Idle
  /\ UNCHANGED <<buildvars, ignited, self_hparams, handler_model, npushed, nhparams, npulls,
                 chanvars, abort, pause, state_request, optimizer_state_request,
                 workvars, thrvars, histvars>>

Pause ==
  /\ ctl.op = "idle"
  /\ ignited
  /\ pause' = TRUE
  /\ UNCHANGED <<buildvars, ctlvars, chanvars, abort, change_hparams, state_request,
                 optimizer_state_request, workvars, thrvars, histvars>>

Resume ==
  /\ ctl.op = "idle"
  /\ ignited
  /\ pause' = FALSE
  /\ UNCHANGED <<buildvars, ctlvars, chanvars, abort, change_hparams, state_request,
                 optimizer_state_request, workvars, thrvars, histvars>>

\* _drain_state_queue: get_nowait until Empty; the last state found is returned.
DrainResult(q) == IF q = <<>> THEN None ELSE Last(q)

\* The number of times a pull has set its request flag.
Raised == IF ctl.op \in {"ms_set", "os_set"} THEN npulls - 1 ELSE npulls

\* A state dict copied now joins queue q.
TakenNow(q) ==
  IF taken = None THEN None
  ELSE IF q = "model"
    THEN [taken EXCEPT !.state_queue = Append(taken.state_queue, Raised)]
    ELSE [taken EXCEPT !.optimizer_queue = Append(taken.optimizer_queue, Raised)]

\* update_handler_model_state / update_handler_optimizer_state, up to the drain.
\* Either asserts self._ignited.
PullCall(key, limit) ==
  /\ ctl.op = "idle"
  /\ ignited
  /\ npulls < limit
  /\ npulls' = npulls + 1
  /\ IF key = "model"
       THEN /\ ctl' = [op |-> "ms_set", state |-> DrainResult(state_queue),
                       trial |-> 0, timed_out |-> FALSE]
            /\ state_queue' = <<>>
            /\ UNCHANGED optimizer_queue
       ELSE /\ ctl' = [op |-> "os_set", state |-> DrainResult(optimizer_queue),
                       trial |-> 0, timed_out |-> FALSE]
            /\ optimizer_queue' = <<>>
            /\ UNCHANGED state_queue
  /\ taken' = IF taken = None THEN None
              ELSE IF key = "model"
                THEN [taken EXCEPT !.state_queue = <<>>, !.got = 0]
                ELSE [taken EXCEPT !.optimizer_queue = <<>>, !.got = 0]
  /\ UNCHANGED <<buildvars, ignited, self_hparams, handler_model, npushed, nhparams,
                 data_queue, hparams_queue, flagvars, workvars, thrvars, pasthist>>

\* self._state_request_event.set() / self._optimizer_state_request_event.set()
PullRequest ==
  /\ ctl.op \in {"ms_set", "os_set"}
  /\ IF ctl.op = "ms_set"
       THEN /\ state_request' = TRUE
            /\ ctl' = [ctl EXCEPT !.op = "ms_get"]
            /\ UNCHANGED optimizer_state_request
       ELSE /\ optimizer_state_request' = TRUE
            /\ ctl' = [ctl EXCEPT !.op = "os_get"]
            /\ UNCHANGED state_request
  /\ UNCHANGED <<buildvars, ignited, self_hparams, handler_model, npushed, nhparams, npulls,
                 chanvars, abort, pause, change_hparams, workvars, thrvars, histvars>>

\* queue.get(timeout=STATE_QUEUE_GET_TIMEOUT) returns the oldest state.
PullGet ==
  /\ ctl.op \in {"ms_get", "os_get"}
  /\ IF ctl.op = "ms_get"
       THEN /\ state_queue # <<>>
            /\ ctl' = [ctl EXCEPT !.op = "ms_load", !.state = Head(state_queue)]
            /\ state_queue' = Tail(state_queue)
            /\ UNCHANGED optimizer_queue
       ELSE /\ optimizer_queue # <<>>
            /\ ctl' = [ctl EXCEPT !.op = "os_ret", !.state = Head(optimizer_queue)]
            /\ optimizer_queue' = Tail(optimizer_queue)
            /\ UNCHANGED state_queue
  /\ taken' = IF taken = None THEN None
              ELSE IF ctl.op = "ms_get"
                THEN [taken EXCEPT !.state_queue = Tail(taken.state_queue),
                                   !.got = Head(taken.state_queue)]
                ELSE [taken EXCEPT !.optimizer_queue = Tail(taken.optimizer_queue),
                                   !.got = Head(taken.optimizer_queue)]
  /\ UNCHANGED <<buildvars, ignited, self_hparams, handler_model, npushed, nhparams, npulls,
                 data_queue, hparams_queue, flagvars, workvars, thrvars, pasthist>>

\* queue.get(timeout=...) raises queue.Empty: nothing arrived in time.
PullTimeout ==
  /\ ctl.op \in {"ms_get", "os_get"}
  /\ IF ctl.op = "ms_get" THEN state_queue = <<>> ELSE optimizer_queue = <<>>
  /\ ctl' = [ctl EXCEPT !.op = IF ctl.op = "ms_get" THEN "ms_load" ELSE "os_ret",
                        !.timed_out = TRUE]
  /\ UNCHANGED <<buildvars, ignited, self_hparams, handler_model, npushed, nhparams, npulls,
                 chanvars, flagvars, workvars, thrvars, histvars>>

\* if state is not None: self.model.load_state_dict(state)   (model)
\* return state                                               (optimizer)
PullFinish ==
  /\ ctl.op \in {"ms_load", "os_ret"}
  /\ handler_model' = IF ctl.op = "ms_load" /\ ctl.state # None
                        THEN ctl.state ELSE handler_model
  /\ last_pull' = [key |-> IF ctl.op = "ms_load" THEN "model" ELSE "optimizer",
                   timed_out |-> ctl.timed_out,
                   result |-> ctl.state,
                   before |-> handler_model,
                   after |-> handler_model']
  /\ ctl' = Idle
  /\ UNCHANGED <<buildvars, ignited, self_hparams, npushed, nhparams, npulls,
                 chanvars, flagvars, workvars, thrvars, last_evict, recency,
                 nspawned, last_shutdown, first_fetch, last_kill, taken>>

\* What a shut_down_training_process call that has returned did: whether
\* there was a process, how many is_alive() checks it made, whether the
\* process was alive when it returned, and the line it logged last.
ShutdownOutcome(spawned, checks, alive, report) ==
  [spawned |-> spawned, checks |-> checks, alive |-> alive, report |-> report]

\* shut_down_training_process: if self._training_process is not None:
\* self._abort_event.set(); without a process the call does nothing.
ShutDown ==
  /\ ctl.op = "idle"
  /\ IF nspawned = 0
       THEN /\ last_shutdown' = ShutdownOutcome(FALSE, 0, FALSE, "none")
            /\ UNCHANGED <<abort, ctl>>
       ELSE /\ abort' = TRUE
            /\ ctl' = [ctl EXCEPT !.op = "sd_poll", !.trial = 0]
            /\ UNCHANGED last_shutdown
  /\ UNCHANGED <<buildvars, ignited, self_hparams, handler_model, npushed, nhparams, npulls,
                 chanvars, pause, change_hparams, state_request, optimizer_state_request,
                 workvars, thrvars, last_evict, recency, last_pull, nspawned, first_fetch, last_kill, taken>>

\* Faulty variant: the loop goes on for as long as the process is alive.
ShutDownBudgetNone == TRUE

\* for trial in range(6)
ShutDownBudget == ctl.trial < ShutdownTrials

\* for trial in range(6): if is_alive(): sleep(10) else: break
\* logger.info("Process Dead.") follows the loop however it ended.
ShutDownPoll ==
  /\ ctl.op = "sd_poll"
  /\ IF ShutDownBudget /\ ProcessAlive
       THEN /\ ctl' = [ctl EXCEPT !.trial = IF ctl.trial <= ShutdownTrials
                                              THEN ctl.trial + 1 ELSE ctl.trial]
            /\ UNCHANGED last_shutdown
       ELSE /\ ctl' = Idle
            /\ last_shutdown' =
                 ShutdownOutcome(TRUE,
                                 IF ShutDownBudget THEN ctl.trial + 1 ELSE ctl.trial,
                                 ProcessAlive, "Process Dead.")
  /\ UNCHANGED <<buildvars, ignited, self_hparams, handler_model, npushed, nhparams, npulls,
                 chanvars, flagvars, workvars, thrvars,
                 last_evict, recency, last_pull, nspawned, first_fetch, last_kill, taken>>

\* ------------------------------------------------------- the sample cache
\* deque(maxlen=n).append(x): a full deque drops its leftmost entry.
DequeAppend(d, x, n) ==
  IF n = 0 THEN <<>>
  ELSE IF Len(d) >= n THEN Append(Tail(d), x)
  ELSE Append(d, x)

\* Faulty variant: the borrowed entry is read and left where it is.
TopUpCacheInPlace(cache, n) == cache

\* Faulty variant: the borrowed entry is not handed back.
TopUpCacheDrop(cache, n) == Tail(cache)

\* One round of the top-up loop: popleft, append to the batch, append back.
TopUpCache(cache, n) == DequeAppend(Tail(cache), Head(cache), n)

\* Faulty variant: the newest entry is borrowed.
BorrowedNewest(cache) == cache[Len(cache)]

\* data_sample = data_cache.popleft()
Borrowed(cache) == Head(cache)

\* while len(data_cache) > 0 and len(batch) < hparams.batch_size: ...
RECURSIVE TopUp(_, _, _, _)
TopUp(cache, b, size, n) ==
  IF Len(cache) > 0 /\ Len(b) < size
    THEN TopUp(TopUpCache(cache, n), Append(b, Borrowed(cache)), size, n)
    ELSE [cache |-> cache, batch |-> b]

\* History: the ids in the cache in the order they were last put there,
\* whether by a dequeue or by a top-up handing a borrowed entry back.
Without(ids, id) == SelectSeq(ids, LAMBDA x : x # id)
Touched(ids, id) == Append(Without(ids, id), id)

RECURSIVE TouchedAll(_, _)
TouchedAll(ids, borrowed) ==
  IF borrowed = <<>> THEN ids
  ELSE TouchedAll(Touched(ids, Head(borrowed).id), Tail(borrowed))

Evicts(cache, n) == n > 0 /\ Len(cache) >= n

\* History: what appending to the cache evicts.
Eviction(cache, n) ==
  IF Evicts(cache, n)
    THEN [victim |-> Head(cache).id,
          earliest |-> Min({cache[i].id : i \in 1..Len(cache)}),
          stalest |-> Head(recency)]
    ELSE last_evict

\* ------------------------------------------------------------ worker loop
CurOptim == Len(optims)
KillBoth(then) == [targets |-> <<"model", "optim">>, then |-> then]

\* hparams = hparams_queue.get(); criterion, optim, the optimizer's state
\* server thread, data_cache = deque(maxlen=hparams.cache_size), iter_count = 0
WorkerStart ==
  /\ pc = "start"
  /\ hparams_queue # <<>>
  /\ hparams' = Head(hparams_queue)
  /\ hparams_queue' = Tail(hparams_queue)
  /\ optims' = <<FreshState(1)>>
  /\ optim_threads' = <<NewThread>>
  /\ data_cache' = <<>>
  /\ cache_maxlen' = Head(hparams_queue).cache_size
  /\ iter_count' = 0
  /\ pc' = "loop"
  /\ UNCHANGED <<buildvars, ctlvars, data_queue, state_queue, optimizer_queue, flagvars,
                 batch, model, state_lock, killing, server_thread, histvars>>

\* if change_hparams.is_set(): change_hparams.clear()
WorkerCheckHparams ==
  /\ pc = "loop"
  /\ IF change_hparams
       THEN change_hparams' = FALSE /\ pc' = "reload"
       ELSE UNCHANGED change_hparams /\ pc' = "state_req"
  /\ UNCHANGED <<buildvars, ctlvars, chanvars, abort, pause, state_request,
                 optimizer_state_request, hparams, data_cache, cache_maxlen, batch,
                 iter_count, model, optims, state_lock, killing, thrvars, histvars>>

\* hparams = hparams_queue.get_nowait(), or queue.Empty
WorkerReload ==
  /\ pc = "reload"
  /\ IF hparams_queue = <<>>
       THEN /\ pc' = "state_req"
            /\ UNCHANGED <<hparams, hparams_queue, killing>>
       ELSE /\ hparams' = Head(hparams_queue)
            /\ hparams_queue' = Tail(hparams_queue)
            /\ killing' = [targets |-> <<"optim">>, then |-> "rebuild"]
            /\ pc' = "kill"
  /\ UNCHANGED <<buildvars, ctlvars, data_queue, state_queue, optimizer_queue, flagvars,
                 data_cache, cache_maxlen, batch, iter_count, model, optims, state_lock,
                 thrvars, histvars>>

\* stop_server.set() as the thread t sees it: a polling thread is either
\* before its stop check, or past it and about to read state_request ("late").
Stopped(t) ==
  {[t EXCEPT !.stop = TRUE]} \cup
  (IF t.pc = "poll" /\ ~t.stop THEN {[t EXCEPT !.stop = TRUE, !.pc = "late"]} ELSE {})

\* _kill_state_server: stop_server.set()
WorkerKill ==
  /\ pc = "kill"
  /\ IF Head(killing.targets) = "model"
       THEN /\ server_thread' \in Stopped(server_thread)
            /\ UNCHANGED optim_threads
       ELSE /\ \E t \in Stopped(optim_threads[CurOptim]) :
                 optim_threads' = [optim_threads EXCEPT ![CurOptim] = t]
            /\ UNCHANGED server_thread
  /\ pc' = "kill_wait"
  /\ last_kill' = IF last_kill = None THEN None ELSE KillBegun
  /\ UNCHANGED <<buildvars, ctlvars, chanvars, flagvars, hparams, data_cache, cache_maxlen,
                 batch, iter_count, model, optims, state_lock, killing,
                 last_evict, recency, last_pull, nspawned, last_shutdown, first_fetch, taken>>

\* The thread the current _kill_state_server call was given.
KillTarget ==
  IF Head(killing.targets) = "model" THEN server_thread ELSE optim_threads[CurOptim]

\* _kill_state_server returns after logging: a warning when it found the
\* thread alive, "State server killed." otherwise.
KillReturn(warned) ==
  /\ killing' = [killing EXCEPT !.targets = Tail(killing.targets)]
  /\ pc' = IF Tail(killing.targets) = <<>> THEN killing.then ELSE "kill"
  /\ last_kill' = IF last_kill = None THEN None
                  ELSE [last_kill EXCEPT !.warned = warned]

\* while thread.is_alive(): time.sleep(1); kill_attempts += 1;
\* if kill_attempts > num_kill_attempts: break
\* One round of the loop.  Where the cycles are not followed the loop is
\* left after some number of them.  A thread found dead by the loop's test
\* is dead at the test that follows it.
WorkerKillWait ==
  /\ pc = "kill_wait"
  /\ IF ~ThreadAlive(KillTarget)
       THEN KillReturn(FALSE)
       ELSE /\ UNCHANGED killing
            /\ IF last_kill = None
                 THEN pc' = "kill_report" /\ UNCHANGED last_kill
                 ELSE /\ last_kill' = [last_kill EXCEPT !.cycles = last_kill.cycles + 1]
                      /\ pc' = IF last_kill.cycles + 1 > NumKillAttempts
                                 THEN "kill_report" ELSE "kill_wait"
  /\ UNCHANGED <<buildvars, ctlvars, chanvars, flagvars, hparams, data_cache, cache_maxlen,
                 batch, iter_count, model, optims, state_lock, thrvars,
                 last_evict, recency, last_pull, nspawned, last_shutdown, first_fetch, taken>>

\* after the break:  if thread.is_alive(): logger.warning(...) else: logger.info(...)
WorkerKillReport ==
  /\ pc = "kill_report"
  /\ KillReturn(ThreadAlive(KillTarget))
  /\ UNCHANGED <<buildvars, ctlvars, chanvars, flagvars, hparams, data_cache, cache_maxlen,
                 batch, iter_count, model, optims, state_lock, thrvars,
                 last_evict, recency, last_pull, nspawned, last_shutdown, first_fetch, taken>>

\* Faulty variant: the new optimizer starts from the old one's state.
RebuiltOptimCarried == [optims[CurOptim] EXCEPT !.gen = CurOptim + 1]

\* optim = getattr(torch.optim, hparams.optimizer_name)(model.parameters(), ...)
RebuiltOptim == FreshState(CurOptim + 1)

\* criterion, optim rebuilt from the new hparams; a new lock, stop event and
\* state server thread for the new optimizer.
WorkerRebuild ==
  /\ pc = "rebuild"
  /\ optims' = Append(optims, RebuiltOptim)
  /\ optim_threads' = Append(optim_threads, NewThread)
  /\ killing' = NoKill
  /\ pc' = "state_req"
  /\ UNCHANGED <<buildvars, ctlvars, chanvars, flagvars, hparams, data_cache, cache_maxlen,
                 batch, iter_count, model, state_lock, server_thread, histvars>>

\* if state_request.is_set(): state_request.clear()   (else on to batch = [])
WorkerCheckStateRequest ==
  /\ pc = "state_req"
  /\ IF state_request
       THEN state_request' = FALSE /\ pc' = "fast_put" /\ UNCHANGED batch
       ELSE UNCHANGED state_request /\ pc' = "check_abort" /\ batch' = <<>>
  /\ UNCHANGED <<buildvars, ctlvars, chanvars, abort, pause, change_hparams,
                 optimizer_state_request, hparams, data_cache, cache_maxlen,
                 iter_count, model, optims, state_lock, killing, thrvars, histvars>>

\* state_queue.put_nowait(model.state_dict()); batch = []
WorkerFastPut ==
  /\ pc = "fast_put"
  /\ state_queue' = Append(state_queue, model)
  /\ taken' = TakenNow("model")
  /\ batch' = <<>>
  /\ pc' = "check_abort"
  /\ UNCHANGED <<buildvars, ctlvars, data_queue, hparams_queue, optimizer_queue, flagvars,
                 hparams, data_cache, cache_maxlen, iter_count, model, optims, state_lock,
                 killing, thrvars, pasthist>>

\* Faulty variant: abort is looked at only when the worker is not paused.
WorkerCheckAbortUnlessPaused ==
  /\ pc = "check_abort"
  /\ IF abort /\ ~pause
       THEN killing' = KillBoth("terminated") /\ pc' = "kill"
       ELSE UNCHANGED killing /\ pc' = "check_pause"
  /\ UNCHANGED <<buildvars, ctlvars, chanvars, flagvars, hparams, data_cache, cache_maxlen,
                 batch, iter_count, model, optims, state_lock, thrvars, histvars>>

\* if abort.is_set(): kill both state servers, break
WorkerCheckAbort ==
  /\ pc = "check_abort"
  /\ IF abort
       THEN killing' = KillBoth("terminated") /\ pc' = "kill"
       ELSE UNCHANGED killing /\ pc' = "check_pause"
  /\ UNCHANGED <<buildvars, ctlvars, chanvars, flagvars, hparams, data_cache, cache_maxlen,
                 batch, iter_count, model, optims, state_lock, thrvars, histvars>>

\* Faulty variant: the pause check comes after a sample was fetched.
WorkerCheckPauseAfterFetch ==
  /\ pc = "check_pause"
  /\ pc' = IF pause THEN "loop" ELSE "fill"
  /\ data_queue' = IF pause /\ data_queue # <<>> THEN Tail(data_queue) ELSE data_queue
  /\ UNCHANGED <<buildvars, ctlvars, hparams_queue, state_queue, optimizer_queue, flagvars,
                 hparams, data_cache, cache_maxlen, batch, iter_count, model, optims,
                 state_lock, killing, thrvars, histvars>>

\* if pause.is_set(): sleep(1); continue
WorkerCheckPause ==
  /\ pc = "check_pause"
  /\ pc' = IF pause THEN "loop" ELSE "fill"
  /\ UNCHANGED <<buildvars, ctlvars, chanvars, flagvars, hparams, data_cache, cache_maxlen,
                 batch, iter_count, model, optims, state_lock, killing, thrvars, histvars>>

\* except queue.Empty: the branch taken, with the top-up done.
Exhausted(b, cache, size, n) ==
  IF Len(b) = 0 /\ Len(cache) = 0
    THEN [pc |-> "loop", cache |-> cache, batch |-> b]
  ELSE IF Len(b) = size
    THEN [pc |-> "train", cache |-> cache, batch |-> b]
  ELSE IF Len(b) < size
    THEN [pc |-> "train"] @@ TopUp(cache, b, size, n)
  ELSE [pc |-> "lolwtf", cache |-> cache, batch |-> b]

\* One round of  while len(batch) < hparams.batch_size:  with its
\* data_queue.get(block=False); on queue.Empty the whole except branch.
\* _cache_keeping declares  global data_cache : the name is not defined at
\* module level, so its first use raises NameError, which no handler of
\* _train_process catches.
WorkerFill ==
  /\ pc = "fill"
  /\ IF data_queue = <<>>
       THEN LET r == Exhausted(batch, data_cache, hparams.batch_size, cache_maxlen)
            IN  /\ batch' = r.batch
                /\ data_cache' = r.cache
                /\ IF r.pc = "lolwtf"
                     THEN killing' = KillBoth("crashed") /\ pc' = "kill"
                     ELSE UNCHANGED killing /\ pc' = r.pc
                /\ recency' = TouchedAll(recency, SubSeq(r.batch, Len(batch) + 1, Len(r.batch)))
                /\ UNCHANGED <<data_queue, last_evict, first_fetch>>
       ELSE /\ data_queue' = Tail(data_queue)
            /\ first_fetch' = IF first_fetch = NotFetched
                              THEN [len |-> Len(data_queue)] ELSE first_fetch
            /\ UNCHANGED killing
            /\ IF use_cache_keeping
                 THEN pc' = "crashed" /\ UNCHANGED <<batch, data_cache, last_evict, recency>>
                 ELSE /\ batch' = Append(batch, Head(data_queue))
                      /\ data_cache' = DequeAppend(data_cache, Head(data_queue), cache_maxlen)
                      /\ last_evict' = Eviction(data_cache, cache_maxlen)
                      /\ recency' =
                           IF cache_maxlen = 0 THEN recency
                           ELSE Append(IF Evicts(data_cache, cache_maxlen)
                                         THEN Without(recency, Head(data_cache).id)
                                         ELSE recency,
                                       Head(data_queue).id)
                      /\ pc' = IF Len(batch) + 1 < hparams.batch_size THEN "fill" ELSE "train"
  /\ UNCHANGED <<buildvars, ctlvars, hparams_queue, state_queue, optimizer_queue, flagvars,
                 hparams, cache_maxlen, iter_count, model, optims, state_lock,
                 thrvars, last_pull, nspawned, last_shutdown, last_kill, taken>>

\* Faulty variant: only the model's state server is stopped.
FailureHandlerModelOnly == [targets |-> <<"model">>, then |-> "crashed"]

\* except Exception: _kill_state_server for the model's and the optimizer's
\* thread, then raise.
FailureHandler == KillBoth("crashed")

\* augmentation, forward, loss: they raise, or the worker takes _state_lock.
WorkerTrain ==
  /\ pc = "train"
  /\ \/ /\ killing' = FailureHandler
        /\ pc' = "kill"
        /\ UNCHANGED state_lock
     \/ /\ state_lock = "free"
        /\ state_lock' = "worker"
        /\ pc' = "step1"
        /\ UNCHANGED killing
  /\ UNCHANGED <<buildvars, ctlvars, chanvars, flagvars, hparams, data_cache, cache_maxlen,
                 batch, iter_count, model, optims, thrvars, histvars>>

\* optim.zero_grad(); loss.backward(); optim.step() writes the first tensor
\* and its optimizer state.  A failure leaves the  with  block, which
\* releases the lock.
WorkerStep1 ==
  /\ pc = "step1"
  /\ \/ /\ killing' = FailureHandler
        /\ pc' = "kill"
        /\ state_lock' = "free"
        /\ UNCHANGED <<model, optims>>
     \/ /\ model' = [model EXCEPT !.a = Bump(model.a)]
        /\ optims' = [optims EXCEPT ![CurOptim].a = Bump(optims[CurOptim].a)]
        /\ pc' = "step2"
        /\ UNCHANGED <<killing, state_lock>>
  /\ UNCHANGED <<buildvars, ctlvars, chanvars, flagvars, hparams, data_cache, cache_maxlen,
                 batch, iter_count, thrvars, histvars>>

\* optim.step() writes the second tensor and its optimizer state;
\* iter_count += 1; the lock is released.  The batch is not read again
\* before  batch = []  replaces it: it is dropped here.
WorkerStep2 ==
  /\ pc = "step2"
  /\ model' = [model EXCEPT !.b = Bump(model.b)]
  /\ optims' = [optims EXCEPT ![CurOptim].b = Bump(optims[CurOptim].b)]
  /\ iter_count' = IF iter_count < MaxIter THEN iter_count + 1 ELSE iter_count
  /\ state_lock' = "free"
  /\ batch' = <<>>
  /\ pc' = "loop"
  /\ UNCHANGED <<buildvars, ctlvars, chanvars, flagvars, hparams, data_cache, cache_maxlen,
                 killing, thrvars, histvars>>

\* ---------------------------------------------------- state server threads
\* A thread is at "poll" while it goes round  check stop_server, check
\* state_request, sleep  and finds neither set.  The two flags are read one
\* after the other: a thread that read stop_server clear just before it was
\* set still reads state_request once more; that place is "late" (see Stopped).

\* assert isinstance(state_obj, torch.optim) or isinstance(state_obj, torch.nn):
\* both are modules, not types, so isinstance raises TypeError and the thread
\* ends, unless asserts are compiled out.
AfterAssert(t) == [t EXCEPT !.pc = IF optimized THEN "poll" ELSE "dead"]

\* if stop_server.is_set(): break
\* if state_request.is_set(): ...
AfterPoll(t, req, serve) ==
  [t EXCEPT !.pc = IF t.pc = "poll" /\ t.stop THEN "dead"
                   ELSE IF req THEN serve
                   ELSE "poll"]

PollEnabled(t, req) ==
  \/ t.pc = "poll" /\ (t.stop \/ req)
  \/ t.pc = "late"

ServerStart ==
  /\ server_thread.pc = "assert"
  /\ server_thread' = AfterAssert(server_thread)
  /\ UNCHANGED <<buildvars, ctlvars, chanvars, flagvars, workvars, optim_threads, histvars>>

ServerPoll ==
  /\ PollEnabled(server_thread, state_request)
  /\ server_thread' = AfterPoll(server_thread, state_request, "lock")
  /\ UNCHANGED <<buildvars, ctlvars, chanvars, flagvars, workvars, optim_threads, histvars>>

\* Faulty variant: the snapshot is taken without waiting for the lock.
ServerLockGuardNone == TRUE

\* with state_lock:
ServerLockGuard == state_lock = "free"

ServerLock ==
  /\ server_thread.pc = "lock"
  /\ ServerLockGuard
  /\ state_lock' = "server"
  /\ server_thread' = [server_thread EXCEPT !.pc = "put"]
  /\ UNCHANGED <<buildvars, ctlvars, chanvars, flagvars, pc, hparams, data_cache,
                 cache_maxlen, batch, iter_count, model, optims, killing,
                 optim_threads, histvars>>

\* state_queue.put_nowait(state_obj.state_dict()); the lock is released.
\* mp.Queue() has no maxsize: queue.Full is never raised.
ServerPut ==
  /\ server_thread.pc = "put"
  /\ state_queue' = Append(state_queue, model)
  /\ taken' = TakenNow("model")
  /\ state_lock' = "free"
  /\ server_thread' = [server_thread EXCEPT !.pc = "clear"]
  /\ UNCHANGED <<buildvars, ctlvars, data_queue, hparams_queue, optimizer_queue, flagvars,
                 pc, hparams, data_cache, cache_maxlen, batch, iter_count, model, optims,
                 killing, optim_threads, pasthist>>

\* state_request.clear(); time.sleep(0.01)
ServerClear ==
  /\ server_thread.pc = "clear"
  /\ state_request' = FALSE
  /\ server_thread' = [server_thread EXCEPT !.pc = "poll"]
  /\ UNCHANGED <<buildvars, ctlvars, chanvars, abort, pause, change_hparams,
                 optimizer_state_request, workvars, optim_threads, histvars>>

\* The state server of optimizer g.  Its lock, _optim_state_lock, is taken by
\* this thread alone (the worker loop never acquires it), so taking it always
\* succeeds at once and is part of the put.
OptimServerStart(g) ==
  /\ optim_threads[g].pc = "assert"
  /\ optim_threads' = [optim_threads EXCEPT ![g] = AfterAssert(@)]
  /\ UNCHANGED <<buildvars, ctlvars, chanvars, flagvars, workvars, server_thread, histvars>>

OptimServerPoll(g) ==
  /\ PollEnabled(optim_threads[g], optimizer_state_request)
  /\ optim_threads' = [optim_threads EXCEPT
                         ![g] = AfterPoll(@, optimizer_state_request, "put")]
  /\ UNCHANGED <<buildvars, ctlvars, chanvars, flagvars, workvars, server_thread, histvars>>

\* with state_lock: state_queue.put_nowait(state_obj.state_dict())
OptimServerPut(g) ==
  /\ optim_threads[g].pc = "put"
  /\ optimizer_queue' = Append(optimizer_queue, optims[g])
  /\ taken' = TakenNow("optimizer")
  /\ optim_threads' = [optim_threads EXCEPT ![g].pc = "clear"]
  /\ UNCHANGED <<buildvars, ctlvars, data_queue, hparams_queue, state_queue, flagvars,
                 workvars, server_thread, pasthist>>

OptimServerClear(g) ==
  /\ optim_threads[g].pc = "clear"
  /\ optimizer_state_request' = FALSE
  /\ optim_threads' = [optim_threads EXCEPT ![g].pc = "poll"]
  /\ UNCHANGED <<buildvars, ctlvars, chanvars, abort, pause, change_hparams,
                 state_request, workvars, server_thread, histvars>>

OptimThreads == 1..Len(optim_threads)

\* The data path: samples, hyperparameters, pause and resume.
NextData ==
  \/ EnsureIgnited
  \/ Push(MaxPush)
  \/ PushHparams(MaxHparams)
  \/ PushHparamsPut
  \/ PushHparamsSet
  \/ Pause
  \/ Resume
  \/ WorkerStart
  \/ WorkerCheckHparams
  \/ WorkerReload
  \/ WorkerKill
  \/ WorkerKillWait
  \/ WorkerKillReport
  \/ WorkerRebuild
  \/ WorkerCheckStateRequest
  \/ WorkerCheckAbort
  \/ WorkerCheckPause
  \/ WorkerFill
  \/ WorkerTrain
  \/ WorkerStep1
  \/ WorkerStep2
  \/ ServerStart
  \/ ServerPoll
  \/ \E g \in OptimThreads : OptimServerStart(g)
  \/ \E g \in OptimThreads : OptimServerPoll(g)

Spec == Init /\ [][NextData]_vars

\* State pulls against a worker that trains.
NextPull ==
  \/ Push(PullPush)
  \/ PullCall("model", MaxPulls)
  \/ PullCall("optimizer", MaxPulls)
  \/ PullRequest
  \/ PullGet
  \/ PullTimeout
  \/ PullFinish
  \/ WorkerStart
  \/ WorkerCheckHparams
  \/ WorkerKill
  \/ WorkerKillWait
  \/ WorkerKillReport
  \/ WorkerCheckStateRequest
  \/ WorkerFastPut
  \/ WorkerCheckAbort
  \/ WorkerCheckPause
  \/ WorkerFill
  \/ WorkerTrain
  \/ WorkerStep1
  \/ WorkerStep2
  \/ ServerStart
  \/ ServerPoll
  \/ ServerLock
  \/ ServerPut
  \/ ServerClear
  \/ \E g \in OptimThreads : OptimServerStart(g)
  \/ \E g \in OptimThreads : OptimServerPoll(g)
  \/ \E g \in OptimThreads : OptimServerPut(g)
  \/ \E g \in OptimThreads : OptimServerClear(g)

SpecPull == Init /\ [][NextPull]_vars

\* The same runs, following when each served state dict was copied.
SpecFresh == InitFresh /\ [][NextPull]_vars

\* The same runs where the worker loop and every state server thread that
\* can take a step keep taking steps.
WorkerPullSteps ==
  \/ WorkerStart
  \/ WorkerCheckHparams
  \/ WorkerKill
  \/ WorkerKillWait
  \/ WorkerKillReport
  \/ WorkerCheckStateRequest
  \/ WorkerFastPut
  \/ WorkerCheckAbort
  \/ WorkerCheckPause
  \/ WorkerFill
  \/ WorkerTrain
  \/ WorkerStep1
  \/ WorkerStep2

ServerSteps ==
  \/ ServerStart
  \/ ServerPoll
  \/ ServerLock
  \/ ServerPut
  \/ ServerClear

OptimServerSteps ==
  \/ \E g \in OptimThreads : OptimServerStart(g)
  \/ \E g \in OptimThreads : OptimServerPoll(g)
  \/ \E g \in OptimThreads : OptimServerPut(g)
  \/ \E g \in OptimThreads : OptimServerClear(g)

SpecServe ==
  /\ Init
  /\ [][NextPull]_vars
  /\ WF_vars(WorkerPullSteps)
  /\ WF_vars(ServerSteps)
  /\ WF_vars(OptimServerSteps)


\* Hyperparameter pushes against a running worker that is given no samples;
\* a push_hparams call that has begun runs to its end, and the worker loop
\* keeps taking steps.  Nothing requests or stops the model's state server
\* here, so its thread stays in its polling loop.
WorkerHparamsSteps ==
  \/ WorkerStart
  \/ WorkerCheckHparams
  \/ WorkerReload
  \/ WorkerKill
  \/ WorkerKillWait
  \/ WorkerKillReport
  \/ WorkerRebuild
  \/ WorkerCheckStateRequest
  \/ WorkerCheckAbort
  \/ WorkerCheckPause
  \/ WorkerFill

NextHparams ==
  \/ EnsureIgnited
  \/ PushHparams(LiveHparams)
  \/ PushHparamsPut
  \/ PushHparamsSet
  \/ WorkerHparamsSteps
  \/ ServerStart
  \/ \E g \in OptimThreads : OptimServerStart(g)
  \/ \E g \in OptimThreads : OptimServerPoll(g)

SpecHparams ==
  /\ Init
  /\ [][NextHparams]_vars
  /\ WF_vars(WorkerHparamsSteps)
  /\ WF_vars(PushHparamsPut \/ PushHparamsSet)

\* Shutdown against a worker that trains, pauses and resumes; the worker
\* loop keeps taking steps.
WorkerAbortSteps ==
  \/ WorkerStart
  \/ WorkerCheckHparams
  \/ WorkerKill
  \/ WorkerKillWait
  \/ WorkerKillReport
  \/ WorkerCheckStateRequest
  \/ WorkerCheckAbort
  \/ WorkerCheckPause
  \/ WorkerFill
  \/ WorkerTrain
  \/ WorkerStep1
  \/ WorkerStep2

NextAbort ==
  \/ EnsureIgnited
  \/ Push(AbortPush)
  \/ Pause
  \/ Resume
  \/ ShutDown
  \/ ShutDownPoll
  \/ WorkerAbortSteps
  \/ ServerStart
  \/ ServerPoll
  \/ \E g \in OptimThreads : OptimServerStart(g)
  \/ \E g \in OptimThreads : OptimServerPoll(g)

SpecAbort ==
  /\ Init
  /\ [][NextAbort]_vars
  /\ WF_vars(WorkerAbortSteps)

\* The end-to-end run: a trainer built with ScenarioHparams is fed up to
\* MaxPush samples while its worker starts, fetches and trains.
NextScenario ==
  \/ Push(MaxPush)
  \/ WorkerStart
  \/ WorkerCheckHparams
  \/ WorkerCheckStateRequest
  \/ WorkerCheckAbort
  \/ WorkerCheckPause
  \/ WorkerFill
  \/ WorkerTrain
  \/ WorkerStep1
  \/ WorkerStep2
  \/ WorkerKill
  \/ WorkerKillWait
  \/ WorkerKillReport
  \/ ServerStart
  \/ ServerPoll
  \/ \E g \in OptimThreads : OptimServerStart(g)
  \/ \E g \in OptimThreads : OptimServerPoll(g)

SpecScenario == InitScenario /\ [][NextScenario]_vars

\* The same runs with nothing assumed of the worker: it may stop taking
\* steps at any point.  A shut_down_training_process call that has begun
\* goes on (its sleeps end).
SpecShutdown ==
  /\ Init
  /\ [][NextAbort]_vars
  /\ WF_vars(ShutDownPoll)

\* The runs of SpecAbort in which the sleep cycles and the report of every
\* _kill_state_server call are followed.
SpecKill ==
  /\ InitKill
  /\ [][NextAbort]_vars
  /\ WF_vars(WorkerAbortSteps)

\* ------------------------------------------------------------------ claims
InNumericStep == pc \in {"train", "step1", "step2"}

\* C1: every batch handed to the augmentation / numeric step has exactly
\* hparams.batch_size elements; a short batch is never forwarded.
C1_BatchHasBatchSize ==
  InNumericStep => Len(batch) = hparams.batch_size

\* C4: the cache never holds more entries than the cache_size of the
\* worker's current Hyperparameters record.
C4_CacheWithinCurrentCacheSize ==
  pc \notin {"unborn", "start"} => Len(data_cache) <= hparams.cache_size

BeforeAssembly ==
  \/ pc \in {"loop", "reload", "rebuild", "state_req", "fast_put",
              "check_abort", "check_pause"}
  \/ pc \in KillPcs /\ killing.then = "rebuild"

\* C6: an iteration that observes pause set dequeues nothing, leaves the
\* cache, the model and iter_count alone and goes back to the top of the
\* loop with an empty batch; the same holds of every step up to the pause
\* check, so assembly later resumes from the queue and cache as they were.
C6_PausedIterationAdvancesNothing ==
  [][(BeforeAssembly /\ pc' # pc) =>
       /\ data_queue' = data_queue
       /\ data_cache' = data_cache
       /\ iter_count' = iter_count
       /\ model' = model
       /\ batch' = <<>>
       /\ pc' # "train"
       /\ (pc = "check_pause" => pc' = IF pause THEN "loop" ELSE "fill")]_vars

\* C6, the case: the worker is about to observe pause with samples waiting
\* in the queue and the cache after it has trained.
C6_Witness ==
  /\ pc = "check_pause" /\ pause
  /\ data_queue # <<>> /\ data_cache # <<>>
  /\ iter_count > 0

\* C7: a batch assembled after a hot-reload has exactly the batch_size of
\* the record the reload read.
C7_BatchAfterReloadHasNewSize ==
  (InNumericStep /\ CurOptim > 1) => Len(batch) = hparams.batch_size

\* C2: no model snapshot in the state-response mailbox, and none loaded into
\* the handler's model, was taken between the two writes of an update.
C2_ModelSnapshotNeverMidUpdate ==
  /\ \A i \in 1..Len(state_queue) : ~Torn(state_queue[i])
  /\ ~Torn(handler_model)
  /\ (ctl.op \in {"ms_set", "ms_get", "ms_load"} /\ ctl.state # None) => ~Torn(ctl.state)

\* C2, the case: the state server thread has put a snapshot of a trained
\* model while the worker was back at the numeric step.
C2_Witness ==
  /\ server_thread.pc = "clear"
  /\ state_queue # <<>>
  /\ pc = "train" /\ iter_count > 0

\* C3: no optimizer snapshot in the optimizer's response mailbox was taken
\* between the two writes of an update.
C3_OptimizerSnapshotNeverMidUpdate ==
  \A i \in 1..Len(optimizer_queue) : ~Torn(optimizer_queue[i])

\* C9: a state pull that timed out loaded nothing into the handler's model
\* and returned no snapshot.
C9_TimeoutKeepsHeldState ==
  (last_pull # None /\ last_pull.timed_out) =>
     /\ last_pull.result = None
     /\ last_pull.after = last_pull.before

WorkerExited == pc \in {"terminated", "crashed"}
WorkerRunning == pc \notin {"unborn", "terminated", "crashed"}

\* C8: the record the worker holds is only ever replaced by a newer one, and
\* a worker that keeps running ends up, for good, with the last record
\* pushed once the controller is out of push_hparams.
C8_WorkerEndsOnLastRecord ==
  /\ [][(hparams # None /\ hparams' # hparams) => hparams'.rev > hparams.rev]_vars
  /\ <>[]((WorkerRunning /\ ctl.op = "idle") => hparams = self_hparams)

\* C8, the case: two records were pushed after ignition and the worker
\* holds the second.
C8_Witness ==
  /\ nhparams = 2 /\ CurOptim > 1
  /\ WorkerRunning /\ ctl.op = "idle"
  /\ hparams = self_hparams /\ hparams.rev = 2

AbortObserved ==
  \/ pc \in KillPcs /\ killing.then = "terminated"
  \/ pc = "terminated"

\* C10: once abort is set the worker loop ends; the iteration that observes
\* abort sets the stop flag of both state servers and goes nowhere else,
\* and from then on no sample is dequeued, no batch is assembled and no
\* numeric step runs.
C10_AbortEndsTheLoop ==
  /\ abort ~> WorkerExited
  /\ [][(pc = "check_abort" /\ pc' # pc) =>
          IF abort THEN AbortObserved' /\ killing'.targets = <<"model", "optim">>
          ELSE pc' = "check_pause"]_vars
  /\ [][AbortObserved =>
          /\ AbortObserved'
          /\ batch' = <<>>
          /\ iter_count' = iter_count /\ model' = model
          /\ Len(data_queue') >= Len(data_queue)
          /\ data_cache' = data_cache]_vars
  /\ [](pc = "terminated" => server_thread.stop /\ optim_threads[CurOptim].stop)

\* C10, the case: the loop has ended on abort while pause was set, after it
\* had trained.
C10_Witness ==
  /\ pc = "terminated" /\ abort /\ pause
  /\ iter_count > 0

\* C11: shut_down_training_process sets abort, makes at most ShutdownTrials
\* liveness checks and then returns, whatever the worker does; none of its
\* steps touches the worker process or its threads; without a process it
\* sets nothing and makes no check.
C11_ShutdownBoundedNoForce ==
  /\ [](ctl.op = "sd_poll" => abort /\ ctl.trial <= ShutdownTrials)
  /\ [](last_shutdown # None =>
          IF last_shutdown.spawned
            THEN abort /\ last_shutdown.checks \in 1..ShutdownTrials
            ELSE last_shutdown.checks = 0)
  /\ [][(ctl' # ctl \/ last_shutdown' # last_shutdown) =>
          /\ (ctl.op = "sd_poll" \/ ctl'.op = "sd_poll" \/ last_shutdown' # last_shutdown)
               => (workvars' = workvars /\ thrvars' = thrvars)
          /\ (last_shutdown' # last_shutdown /\ nspawned = 0)
               => (abort' = abort /\ ctl' = ctl)]_vars
  /\ (ctl.op = "sd_poll") ~> (ctl.op = "idle")

\* C11, the case: the call used up its checks and returned while the
\* process was alive, and the process is still alive.
C11_Witness ==
  /\ last_shutdown # None /\ last_shutdown.spawned
  /\ last_shutdown.checks = ShutdownTrials /\ last_shutdown.alive
  /\ ctl.op = "idle" /\ ProcessAlive

\* C12: what a returned shut_down_training_process call reported matches
\* the process: alive at the return, it reported something other than the
\* process being dead; dead at the return, it reported it dead and is_alive()
\* is false from then on.
C12_ShutdownReportMatchesLiveness ==
  (last_shutdown # None /\ last_shutdown.spawned) =>
     /\ last_shutdown.alive => last_shutdown.report # "Process Dead."
     /\ ~last_shutdown.alive =>
          (last_shutdown.report = "Process Dead." /\ ~ProcessAlive)

\* C13: no sample is added to the data queue of a controller whose worker
\* process is dead.
C13_PushOnDeadWorkerEnqueuesNothing ==
  [][(ignited /\ ~ProcessAlive) => Len(data_queue') <= Len(data_queue)]_vars

\* C14: one controller starts one worker process: calls of ensure_ignited
\* and push on an ignited controller start no process, and the worker is
\* never put back to its start with new queues.
C14_OneIgnition ==
  /\ [](nspawned <= 1 /\ (ignited <=> nspawned = 1))
  /\ [][ignited =>
          /\ ignited' /\ nspawned' = nspawned
          /\ (pc' = "start" => pc = "start")
          /\ (server_thread'.pc = "assert" => server_thread.pc = "assert")]_vars

\* C14, the case: every sample was pushed, all but the first on an ignited
\* controller, and the one worker has trained.
C14_Witness ==
  /\ npushed = MaxPush /\ ignited /\ nspawned = 1
  /\ iter_count > 0

BatchIds == [i \in 1..Len(batch) |-> batch[i].id]
CacheIds == [i \in 1..Len(data_cache) |-> data_cache[i].id]

\* The three samples were in the data queue at the worker's first dequeue
\* and nothing has been pushed since.  (The samples are numbered from 1.)
ThreeQueuedFirst ==
  first_fetch # NotFetched /\ first_fetch.len = 3 /\ npushed = 3

\* C15: with batch_size 2, cache_size 10 and no cache keeping, three samples
\* queued before the first dequeue give the first numeric step the batch
\* [1, 2] and the second the batch [3, 1]; in between the fill loop meets
\* the exhausted queue with batch [3] and cache [1, 2, 3].
C15_ScenarioBatches ==
  ThreeQueuedFirst =>
    /\ (InNumericStep /\ iter_count = 0) => BatchIds = <<1, 2>>
    /\ (InNumericStep /\ iter_count = 1) => BatchIds = <<3, 1>>
    /\ (pc = "fill" /\ iter_count = 1 /\ data_queue = <<>>) =>
          (BatchIds = <<3>> /\ CacheIds = <<1, 2, 3>>)

\* C15, the case: the second numeric step is about to run on the topped-up
\* batch.
C15_Witness ==
  /\ ThreeQueuedFirst
  /\ pc = "train" /\ iter_count = 1
  /\ BatchIds = <<3, 1>> /\ CacheIds = <<2, 3, 1>>

\* C16: with cache keeping on, a fetched sample whose input is in no cached
\* entry goes to the batch and to the cache; one whose input and label are
\* those of a cached entry goes to the cache only; one whose input is cached
\* with another label goes to both after every such entry has left the cache.
C16_CacheKeepingPolicy ==
  [][(use_cache_keeping /\ pc = "fill" /\ Len(data_queue') < Len(data_queue)) =>
       LET sample == Head(data_queue)
           same == {i \in 1..Len(data_cache) : data_cache[i].data = sample.data}
           clean == {i \in same : data_cache[i].labels = sample.labels}
           dirty == same \ clean
       IN  /\ batch' = IF clean = {} THEN Append(batch, sample) ELSE batch
           /\ cache_maxlen > 0 =>
                 /\ Len(data_cache') > 0
                 /\ Last(data_cache') = sample
                 /\ \A j \in 1..(Len(data_cache') - 1) :
                       ~(/\ data_cache'[j].data = sample.data
                         /\ data_cache'[j].labels # sample.labels)
       ]_vars

ModelServerStopped == server_thread.stop
OptimServerStopped == CurOptim > 0 /\ optim_threads[CurOptim].stop

\* C17: while the worker runs and a component's state server has not been
\* told to stop, a set state-requested flag of that component is cleared
\* again, for the model and for the optimizer.
C17_RequestsAreServed ==
  /\ [](state_request =>
          <>(~state_request \/ ~WorkerRunning \/ ModelServerStopped))
  /\ [](optimizer_state_request =>
          <>(~optimizer_state_request \/ ~WorkerRunning \/ OptimServerStopped))

\* C18: each state-response mailbox holds at most one unread snapshot, so
\* the server thread and the fast path together enqueue at most one
\* snapshot for one setting of the model's state-requested flag.
C18_MailboxHoldsAtMostOne ==
  Len(state_queue) <= 1 /\ Len(optimizer_queue) <= 1

\* C19: a fill loop that meets the exhausted queue with a partly filled batch
\* and an empty cache stops both state servers and raises; the batch goes to
\* no numeric step.
C19_PartialBatchEmptyCacheIsFatal ==
  [][(/\ pc = "fill" /\ pc' # pc
      /\ data_queue = <<>>
      /\ 0 < Len(batch) /\ Len(batch) < hparams.batch_size
      /\ data_cache = <<>>) =>
       (pc' = "kill" /\ killing' = KillBoth("crashed"))]_vars

FailureObserved == killing.then = "crashed"

\* C20: a numeric step that raises, before or inside the locked update,
\* leaves the model's lock free and goes on to set the stop event of the
\* model's and the current optimizer's state server; after that the worker
\* fetches nothing, updates nothing and ends.
C20_FailureStopsBothServers ==
  /\ [][(pc \in {"train", "step1"} /\ pc' \notin {"train", "step1", "step2"}) =>
          /\ pc' = "kill" /\ killing' = KillBoth("crashed")
          /\ state_lock' # "worker"]_vars
  /\ [][FailureObserved =>
          /\ FailureObserved' /\ pc' \in KillPcs \cup {"crashed"}
          /\ state_lock' # "worker"
          /\ iter_count' = iter_count /\ model' = model /\ optims' = optims
          /\ batch' = batch /\ data_cache' = data_cache
          /\ Len(data_queue') >= Len(data_queue)]_vars
  /\ []((pc = "crashed" /\ FailureObserved) =>
          (server_thread.stop /\ optim_threads[CurOptim].stop))

\* C20, the case: a step raised after the worker had trained, and both
\* server threads, which were running, have ended.
C20_Witness ==
  /\ pc = "crashed" /\ FailureObserved
  /\ iter_count > 0
  /\ optimized /\ ~ProcessAlive

Count(q, x) == Cardinality({i \in 1..Len(q) : q[i] = x})

\* C21: a top-up that borrows k entries leaves the cache with the same
\* length and the same samples as often as before, turned round by k places;
\* the entries borrowed are the cache's, oldest first and round again when k
\* exceeds its length; the data queue is left alone.
C21_TopUpKeepsCacheComposition ==
  [][(pc = "fill" /\ data_queue = <<>> /\ Len(batch') > Len(batch)) =>
       LET k == Len(batch') - Len(batch)
           n == Len(data_cache)
       IN  /\ n > 0
           /\ Len(data_cache') = n
           /\ \A i \in 1..n : Count(data_cache', data_cache[i]) = Count(data_cache, data_cache[i])
           /\ \A i \in 1..n : data_cache'[i] = data_cache[((i - 1 + k) % n) + 1]
           /\ \A j \in 1..k : batch'[Len(batch) + j] = data_cache[((j - 1) % n) + 1]
           /\ SubSeq(batch', 1, Len(batch)) = batch
           /\ data_queue' = data_queue]_vars

\* C21, the case: the one sample ever pushed was trained on before, and a
\* top-up has just borrowed it twice from the cache.
C21_Witness ==
  /\ npushed = 1
  /\ pc = "train" /\ Len(batch) = 2 /\ Len(data_cache) = 1
  /\ batch[1] = data_cache[1] /\ batch[2] = data_cache[1]
  /\ data_queue = <<>> /\ iter_count > 0

\* The worker is in the hot-reload block of an iteration.
InReload ==
  \/ pc = "loop" /\ change_hparams
  \/ pc \in {"reload", "rebuild"}
  \/ pc \in KillPcs /\ killing.then = "rebuild"

\* C22: the steps of a hot-reload leave the data queue, the cache and its
\* order, the batch, the model's parameters, lock and state server, the
\* iteration counter and the other flags as they are; with a record in the
\* mailbox they take it, set the stop event of the old optimizer's server
\* and add a fresh optimizer with a new server thread; with an empty
\* mailbox they only clear the flag.
C22_ReloadReplacesOnlyOptimizerSide ==
  /\ [][(InReload /\ pc' # pc) =>
          /\ data_queue' = data_queue
          /\ data_cache' = data_cache /\ cache_maxlen' = cache_maxlen
          /\ batch' = batch
          /\ model' = model /\ state_lock' = state_lock
          /\ iter_count' = iter_count
          /\ server_thread' = server_thread
          /\ state_queue' = state_queue /\ optimizer_queue' = optimizer_queue
          /\ <<abort, pause, state_request, optimizer_state_request>>' =
               <<abort, pause, state_request, optimizer_state_request>>]_vars
  /\ [][(pc = "loop" /\ pc' # pc) =>
          /\ change_hparams' = FALSE
          /\ pc' = IF change_hparams THEN "reload" ELSE "state_req"
          /\ <<hparams, hparams_queue, optims, optim_threads>>' =
               <<hparams, hparams_queue, optims, optim_threads>>]_vars
  /\ [][(pc = "reload" /\ pc' # pc) =>
          IF hparams_queue = <<>>
            THEN /\ pc' = "state_req"
                 /\ <<hparams, optims, optim_threads, change_hparams>>' =
                      <<hparams, optims, optim_threads, change_hparams>>
            ELSE /\ hparams' = Head(hparams_queue)
                 /\ optims' = optims]_vars
  /\ [][(pc = "rebuild" /\ pc' # pc) =>
          /\ pc' = "state_req"
          /\ optim_threads[CurOptim].stop
          /\ Len(optims') = Len(optims) + 1
          /\ SubSeq(optims', 1, Len(optims)) = optims
          /\ Last(optims').a = 0 /\ Last(optims').b = 0
          /\ Last(optim_threads') = NewThread
          /\ hparams' = hparams]_vars

\* C22, the case: a hot-reload has just ended in a worker that had trained,
\* with samples waiting in the queue and the cache; the old optimizer had
\* state and the new one has none.
C22_Witness ==
  /\ pc = "state_req" /\ CurOptim = 2 /\ killing = NoKill
  /\ iter_count > 0 /\ data_queue # <<>> /\ data_cache # <<>>
  /\ optims[1].a # 0 /\ optims[2] = FreshState(2)
  /\ hparams = self_hparams /\ hparams.rev = 1

InKillWait == pc \in {"kill_wait", "kill_report"}

\* C23: _kill_state_server sets the service's stop flag and always returns;
\* it waits at most num_kill_attempts one-second cycles for the thread to
\* exit, never force-kills the thread, and reports failure to stop exactly
\* when the thread is still alive at the moment it returns.
C23_KillWaitsAtMostNumKillAttempts ==
  /\ [](InKillWait => KillTarget.stop)
  /\ [](last_kill.cycles <= NumKillAttempts)
  /\ [][(InKillWait /\ <<pc, last_kill, taken>>' # <<pc, last_kill, taken>>) =>
          /\ server_thread' = server_thread
          /\ optim_threads' = optim_threads]_vars
  /\ [][(InKillWait /\ ~InKillWait') =>
          last_kill'.warned = ThreadAlive(KillTarget)]_vars
  /\ (InKillWait ~> ~InKillWait)

\* C24: the state dict a successful pull got from its queue was copied after
\* that pull set its request flag; one copied for an earlier request, or
\* before the current request was raised, is never returned or loaded.
C24_PulledStateIsFresh ==
  (ctl.op \in {"ms_load", "os_ret"} /\ ~ctl.timed_out) => taken.got = npulls

====
